---- MODULE Spec2Model ----
(***************************************************************************)
(* The access-control store of jwst-storage (database/mod.rs, DBContext):  *)
(* the tables users, workspaces and permissions, the sequences behind     *)
(* their SERIAL keys, and the handlers that write them.  Every autocommit  *)
(* statement is one atomic step.  create_user runs its statements inside   *)
(* one transaction: its writes stay in the transaction until COMMIT, the   *)
(* rows it has updated stay locked, and an insert that collides with an    *)
(* uncommitted row of another transaction waits for that transaction to    *)
(* end (READ COMMITTED, the isolation level of the PgPool behind DBPool).  *)
(* create_permission is two separate autocommit statements.                *)
(***************************************************************************)
EXTENDS Integers, FiniteSets, TLC

\* ---------------------------------------------------------------- bounds
MaxWorkspaces == 3
MaxPermissions == 4
MaxCalls == 4

\* The bounds of SpecWide: one more call and one more grant.
WideWorkspaces == 3
WidePermissions == 5
WideCalls == 5

\* The bound of SpecToken: the largest token_nonce a user is rotated to.
MaxNonce == 2

\* The larger bounds of SpecReconcile.
ReconcileWorkspaces == 4
ReconcilePermissions == 6
ReconcileCalls == 6

\* Inputs of the handlers.
Emails == {"alice@x.com", "bob@x.com"}
Procs == {1, 2}
InviteTypes == {"Owner", "Write"}

\* ------------------------------------------------------- column values
NoUser == 0
NoEmail == "NULL"
NoId == 0

VARIABLES
    users,           \* committed rows of table users: [id, email, token_nonce]
    workspaces,      \* committed rows of table workspaces:  [id, public, type]
    permissions,     \* committed rows of table permissions
    users_seq,       \* last value of the users.id sequence
    workspaces_seq,  \* last value of the workspaces.id sequence
    permissions_seq, \* last value of the permissions.id sequence
    trx,             \* per caller: the create_user call and its transaction
    invite,          \* the create_permission call between its two statements
    ret,             \* the value returned by the step just taken, if any
    calls            \* number of handler calls made so far

vars == <<users, workspaces, permissions, users_seq, workspaces_seq,
          permissions_seq, trx, invite, ret, calls>>

db == <<users, workspaces, permissions>>

\* ---------------------------------------------------------------- rows
\* token_nonce SMALLINT DEFAULT 0: create_user does not set it.
UserRow(id, email) == [id |-> id, email |-> email, token_nonce |-> 0]

WorkspaceRow(id, ws_type) == [id |-> id, public |-> FALSE, type |-> ws_type]

\* The Owner grant left at the column default accepted = False.
OwnerRowPending(id, user_id, workspace_id) ==
    [id |-> id, workspace_id |-> workspace_id, user_id |-> user_id,
     user_email |-> NoEmail, type |-> "Owner", accepted |-> FALSE]

OwnerRow(id, user_id, workspace_id) ==
    [id |-> id, workspace_id |-> workspace_id, user_id |-> user_id,
     user_email |-> NoEmail, type |-> "Owner", accepted |-> TRUE]

InviteRow(id, user_id, user_email, workspace_id, permission_type) ==
    [id |-> id, workspace_id |-> workspace_id, user_id |-> user_id,
     user_email |-> user_email, type |-> permission_type, accepted |-> FALSE]

\* UNIQUE (workspace_id, user_id), UNIQUE (workspace_id, user_email): a NULL
\* never equals anything, so only the populated column can collide.
PermissionConflict(perms, row) ==
    \E p \in perms :
        /\ p.workspace_id = row.workspace_id
        /\ \/ (row.user_id # NoUser /\ p.user_id = row.user_id)
           \/ (row.user_email # NoEmail /\ p.user_email = row.user_email)

\* ------------------------------------------------------------- queries
get_user_by_email(email) ==
    IF \E u \in users : u.email = email
    THEN (CHOOSE u \in users : u.email = email).id
    ELSE NoUser

\* SELECT ... FROM users WHERE id = $1 AND token_nonce = $2 (fetch_optional):
\* the set holds the row returned, if any.
refresh_token(user_id, token_nonce) ==
    {u \in users : u.id = user_id /\ u.token_nonce = token_nonce}

\* The SELECT without `AND token_nonce = $2`.
verify_refresh_token_any_nonce(user_id, token_nonce) ==
    \E u \in users : u.id = user_id

\* SELECT True FROM users WHERE id = $1 AND token_nonce = $2; r.is_some()
verify_refresh_token(user_id, token_nonce) ==
    \E u \in users : u.id = user_id /\ u.token_nonce = token_nonce

\* SELECT users.* FROM permissions INNER JOIN users ON permissions.user_id =
\* users.id WHERE workspace_id = $1 AND type = Owner: the rows of the join.
\* fetch_one returns the first of them, or Err(RowNotFound) when there is none.
get_workspace_owner(workspace_id) ==
    {u \in users : \E p \in permissions : /\ p.user_id = u.id
                                           /\ p.workspace_id = workspace_id
                                           /\ p.type = "Owner"}

\* SELECT COUNT(permissions.id) ... WHERE workspace_id = $1 AND accepted = True
get_member_count(workspace_id) ==
    Cardinality({p \in permissions : p.workspace_id = workspace_id /\ p.accepted})

\* The results get_workspace_by_id can return when its statements read the
\* committed tables as they are: Ok(None), Ok(Some(detail)) or Err.
get_workspace_by_id(workspace_id) ==
    IF ~\E w \in workspaces : w.id = workspace_id
    THEN {[kind |-> "none", owner |-> NoUser, member_count |-> 0]}
    ELSE IF \E w \in workspaces : w.id = workspace_id /\ w.type = "Private"
    THEN {[kind |-> "detail", owner |-> NoUser, member_count |-> 0]}
    ELSE IF get_workspace_owner(workspace_id) = {}
    THEN {[kind |-> "err", owner |-> NoUser, member_count |-> 0]}
    ELSE {[kind |-> "detail", owner |-> u.id,
           member_count |-> get_member_count(workspace_id)]
            : u \in get_workspace_owner(workspace_id)}

\* The results get_user_in_workspace_by_email can return.  Its first statement
\* is `SELECT ... FROM users` with no WHERE clause and one bound value the text
\* has no placeholder for: the driver may refuse it (Err); otherwise
\* fetch_optional returns the first row of users, whichever that is, and the
\* email is looked at only when users is empty.
get_user_in_workspace_by_email(workspace_id, email) ==
    {[kind |-> "err", user |-> NoUser, in_workspace |-> FALSE]}
    \cup
    IF users # {}
    THEN {[kind |-> "registered", user |-> u.id,
           in_workspace |-> \E p \in permissions : /\ p.workspace_id = workspace_id
                                                    /\ p.user_id = u.id]
            : u \in users}
    ELSE {[kind |-> "unregistered", user |-> NoUser,
           in_workspace |-> \E p \in permissions : /\ p.workspace_id = workspace_id
                                                    /\ p.user_email = email]}

\* The SELECT with `AND accepted = True` on the grant.
can_read_workspace_accepted_only(user_id, workspace_id) ==
    \E p \in permissions :
        \/ (p.user_id = user_id /\ p.workspace_id = workspace_id /\ p.accepted)
        \/ \E w \in workspaces : w.id = workspace_id /\ w.public

can_read_workspace(user_id, workspace_id) ==
    \E p \in permissions :
        \/ (p.user_id = user_id /\ p.workspace_id = workspace_id)
        \/ \E w \in workspaces : w.id = workspace_id /\ w.public

\* --------------------------------------------------------- transactions
IdleTrx ==
    [pc |-> "idle", email |-> NoEmail, fresh |-> FALSE, user_id |-> NoId,
     workspace_id |-> NoId, permission_id |-> NoId, cred |-> {},
     res |-> "none", fault |-> "none"]

InFlight(t) == trx[t].pc \in {"user_inserted", "ws_provisioned", "reconciled"}

\* The call has returned without COMMIT: what the caller holds is the result;
\* the rows the transaction wrote are gone with it.
Done(t, res, fault) ==
    [IdleTrx EXCEPT !.pc = "done", !.email = trx[t].email, !.fresh = trx[t].fresh,
                    !.res = res, !.fault = fault]

\* Rows of permissions updated by a transaction that has not ended yet.
Locked == UNION {trx[t].cred : t \in {s \in Procs : trx[s].pc = "reconciled"}}

\* users without UNIQUE (email): nothing to wait for.
EmailNeverHeld(t, email) == FALSE

\* An uncommitted users row with this email held by another transaction.
EmailHeld(t, email) ==
    \E s \in Procs \ {t} : InFlight(s) /\ trx[s].email = email

\* UPDATE permissions SET user_id = $1, user_email = NULL WHERE user_email = $2
update_cred_match(perms, user_email) == {p \in perms : p.user_email = user_email}

\* The UPDATE without `user_email = NULL`.
update_cred_set_keeps_email(p, user_id) == [p EXCEPT !.user_id = user_id]

update_cred_set(p, user_id) ==
    [p EXCEPT !.user_id = user_id, !.user_email = NoEmail]

\* create_workspace run on the pool instead of the transaction: its two rows
\* outlive the rollback.
RolledBackKeepsWorkspace(t) ==
    IF trx[t].workspace_id = NoId
    THEN db
    ELSE <<users,
           workspaces \cup {WorkspaceRow(trx[t].workspace_id, "Private")},
           permissions \cup {OwnerRow(trx[t].permission_id, trx[t].user_id,
                                      trx[t].workspace_id)}>>

\* What a transaction that ends without COMMIT leaves in the tables.
RolledBack(t) == db

NoRet == [op |-> "none", a |-> 0, b |-> 0, val |-> "none"]

IdleInvite ==
    [pc |-> "idle", email |-> NoEmail, workspace_id |-> NoId, type |-> "Read",
     user_id |-> NoUser]

\* A handler is entered: one more call.
Call == calls' = calls + 1

\* ----------------------------------------------------------------- Init
Init ==
    /\ users = {}
    /\ workspaces = {}
    /\ permissions = {}
    /\ users_seq = 0
    /\ workspaces_seq = 0
    /\ permissions_seq = 0
    /\ trx = [t \in Procs |-> IdleTrx]
    /\ invite = IdleInvite
    /\ ret = NoRet
    /\ calls = 0

\* ------------------------------------------------------------ create_user
\* let mut trx = self.db.begin().await?;
create_user_begin(t, email) ==
    /\ Call
    /\ trx[t].pc = "idle"
    /\ \A s \in Procs : s < t => trx[s].pc # "idle"
    /\ trx' = [trx EXCEPT ![t] =
                 [IdleTrx EXCEPT !.pc = "begun", !.email = email,
                                 !.fresh = (get_user_by_email(email) = NoUser)]]
    /\ UNCHANGED <<users, workspaces, permissions, users_seq, workspaces_seq,
                   permissions_seq, invite>>
    /\ ret' = NoRet

\* INSERT INTO users ... ON CONFLICT email DO NOTHING RETURNING ...
create_user_insert(t) ==
    /\ UNCHANGED calls
    /\ trx[t].pc = "begun"
    /\ ~EmailHeld(t, trx[t].email)
    /\ IF get_user_by_email(trx[t].email) # NoUser
       THEN /\ trx' = [trx EXCEPT ![t] = Done(t, "empty", "none")]
            /\ users' = RolledBack(t)[1]
            /\ workspaces' = RolledBack(t)[2]
            /\ permissions' = RolledBack(t)[3]
            /\ UNCHANGED users_seq
       ELSE /\ users_seq' = users_seq + 1
            /\ trx' = [trx EXCEPT ![t].pc = "user_inserted",
                                  ![t].user_id = users_seq + 1]
            /\ UNCHANGED <<users, workspaces, permissions>>
    /\ UNCHANGED <<workspaces_seq, permissions_seq, invite>>
    /\ ret' = NoRet

\* Self::create_workspace(&mut trx, user.id, WorkspaceType::Private).await?;
create_user_workspace(t) ==
    /\ UNCHANGED calls
    /\ trx[t].pc = "user_inserted"
    /\ workspaces_seq' = workspaces_seq + 1
    /\ permissions_seq' = permissions_seq + 1
    /\ trx' = [trx EXCEPT ![t].pc = "ws_provisioned",
                          ![t].workspace_id = workspaces_seq + 1,
                          ![t].permission_id = permissions_seq + 1]
    /\ UNCHANGED <<users, workspaces, permissions, users_seq, invite>>
    /\ ret' = NoRet

\* Self::update_cred(&mut trx, user.id, &user.email).await?;
create_user_update_cred(t) ==
    /\ UNCHANGED calls
    /\ trx[t].pc = "ws_provisioned"
    /\ trx' = [trx EXCEPT ![t].pc = "reconciled",
                          ![t].cred = {p.id : p \in update_cred_match(permissions,
                                                                     trx[t].email)}]
    /\ UNCHANGED <<users, workspaces, permissions, users_seq, workspaces_seq,
                   permissions_seq, invite>>
    /\ ret' = NoRet

\* trx.commit().await?; Ok(Some(user))
create_user_commit(t) ==
    /\ UNCHANGED calls
    /\ trx[t].pc = "reconciled"
    /\ users' = users \cup {UserRow(trx[t].user_id, trx[t].email)}
    /\ workspaces' = workspaces \cup {WorkspaceRow(trx[t].workspace_id, "Private")}
    /\ permissions' =
          {IF p.id \in trx[t].cred THEN update_cred_set(p, trx[t].user_id) ELSE p
             : p \in permissions}
          \cup {OwnerRow(trx[t].permission_id, trx[t].user_id, trx[t].workspace_id)}
    /\ trx' = [trx EXCEPT ![t].pc = "done", ![t].res = "user"]
    /\ UNCHANGED <<users_seq, workspaces_seq, permissions_seq, invite>>
    /\ ret' = NoRet

\* Any awaited statement returns Err (or the future is dropped): `?` returns,
\* the Transaction is dropped and rolls back.
create_user_fail(t) ==
    /\ UNCHANGED calls
    /\ trx[t].pc \in {"begun", "user_inserted", "ws_provisioned", "reconciled"}
    /\ trx' = [trx EXCEPT ![t] = Done(t, "error", trx[t].pc)]
    /\ users' = RolledBack(t)[1]
    /\ workspaces' = RolledBack(t)[2]
    /\ permissions' = RolledBack(t)[3]
    /\ UNCHANGED <<users_seq, workspaces_seq, permissions_seq, invite>>
    /\ ret' = NoRet

\* ------------------------------------------------ create_normal_workspace
\* begin; create_workspace(trx, user_id, Normal); commit.  The permissions
\* insert violates REFERENCES users(id) when no such user exists: Err, and
\* the transaction rolls back (the sequence values stay consumed).
create_normal_workspace(user_id) ==
    /\ Call
    /\ workspaces_seq' = workspaces_seq + 1
    /\ permissions_seq' = permissions_seq + 1
    /\ IF \E u \in users : u.id = user_id
       THEN /\ workspaces' = workspaces \cup {WorkspaceRow(workspaces_seq + 1, "Normal")}
            /\ permissions' = permissions \cup
                 {OwnerRow(permissions_seq + 1, user_id, workspaces_seq + 1)}
            /\ ret' = [op |-> "create_normal_workspace", a |-> 0, b |-> 0, val |-> "ok"]
       ELSE /\ UNCHANGED <<workspaces, permissions>>
            /\ ret' = [op |-> "create_normal_workspace", a |-> 0, b |-> 0, val |-> "err"]
    /\ UNCHANGED <<users, users_seq, trx, invite>>

\* --------------------------------------------------------- update_workspace
\* UPDATE workspaces SET public = $1 WHERE id = $2 AND type = Normal RETURNING ..
\* The UPDATE without `AND type = Normal`.
update_workspace_match_any_type(workspace_id) ==
    {w \in workspaces : w.id = workspace_id}

update_workspace_match(workspace_id) ==
    {w \in workspaces : w.id = workspace_id /\ w.type = "Normal"}

update_workspace(workspace_id, public) ==
    /\ Call
    /\ workspaces' = {IF w \in update_workspace_match(workspace_id)
                      THEN [w EXCEPT !.public = public] ELSE w : w \in workspaces}
    /\ ret' = [op |-> "update_workspace", a |-> 0, b |-> 0, val |-> IF update_workspace_match(workspace_id) # {}
                       THEN (IF public THEN "some_public" ELSE "some_private")
                       ELSE "none"]
    /\ UNCHANGED <<users, permissions, users_seq, workspaces_seq,
                   permissions_seq, trx, invite>>

\* --------------------------------------------------------- delete_workspace
\* DELETE FROM workspaces CASCADE WHERE id = $1 AND type = Normal; the rows of
\* permissions go with it through ON DELETE CASCADE, once none of them is
\* locked by an open transaction.
\* The DELETE without `AND type = Normal`.
delete_workspace_match_any_type(workspace_id) ==
    {w \in workspaces : w.id = workspace_id}

delete_workspace_match(workspace_id) ==
    {w \in workspaces : w.id = workspace_id /\ w.type = "Normal"}

delete_workspace(workspace_id) ==
    /\ Call
    /\ \/ delete_workspace_match(workspace_id) = {}
       \/ \A p \in permissions : p.workspace_id = workspace_id => p.id \notin Locked
    /\ workspaces' = workspaces \ delete_workspace_match(workspace_id)
    /\ permissions' =
          IF delete_workspace_match(workspace_id) # {}
          THEN {p \in permissions : p.workspace_id # workspace_id}
          ELSE permissions
    /\ ret' = [op |-> "delete_workspace", a |-> 0, b |-> 0, val |-> IF delete_workspace_match(workspace_id) # {}
                       THEN "true" ELSE "false"]
    /\ UNCHANGED <<users, users_seq, workspaces_seq, permissions_seq, trx, invite>>

\* -------------------------------------------------------- create_permission
\* let user = self.get_user_by_email(email).await?;
create_permission_lookup(email, workspace_id, permission_type) ==
    /\ Call
    /\ invite.pc = "idle"
    /\ invite' = [pc |-> "looked_up", email |-> email,
                  workspace_id |-> workspace_id, type |-> permission_type,
                  user_id |-> get_user_by_email(email)]
    /\ UNCHANGED <<users, workspaces, permissions, users_seq, workspaces_seq,
                   permissions_seq, trx>>
    /\ ret' = NoRet

\* The Registered arm binding the email next to the user id.
create_permission_row_with_email(id) ==
    InviteRow(id, invite.user_id, invite.email, invite.workspace_id, invite.type)

\* The row the INSERT binds: ($1, $2) is (user.id, NULL) or (NULL, email).
create_permission_row(id) ==
    IF invite.user_id # NoUser
    THEN InviteRow(id, invite.user_id, NoEmail, invite.workspace_id, invite.type)
    ELSE InviteRow(id, NoUser, invite.email, invite.workspace_id, invite.type)

\* The SELECT without `workspaces.type = Normal`.
create_permission_target_any_type(workspace_id) ==
    {w \in workspaces : w.id = workspace_id}

\* ... SELECT $1, $2, $3, $4 FROM workspaces WHERE type = Normal AND id = $3
create_permission_target(workspace_id) ==
    {w \in workspaces : w.type = "Normal" /\ w.id = workspace_id}

\* INSERT INTO permissions ... ON CONFLICT DO NOTHING RETURNING id
create_permission_insert ==
    /\ UNCHANGED calls
    /\ invite.pc = "looked_up"
    /\ ~PermissionConflict({p \in permissions : p.id \in Locked},
                           create_permission_row(NoId))
    /\ IF /\ create_permission_target(invite.workspace_id) # {}
          /\ ~PermissionConflict(permissions, create_permission_row(NoId))
       THEN /\ permissions_seq' = permissions_seq + 1
            /\ permissions' = permissions \cup
                                {create_permission_row(permissions_seq + 1)}
            /\ ret' = [op |-> "create_permission", a |-> 0, b |-> 0, val |-> "some"]
       ELSE /\ UNCHANGED <<permissions, permissions_seq>>
            /\ ret' = [op |-> "create_permission", a |-> 0, b |-> 0, val |-> "none"]
    /\ invite' = IdleInvite
    /\ UNCHANGED <<users, workspaces, users_seq, workspaces_seq, trx>>

\* -------------------------------------------------------- accept_permission
\* UPDATE permissions SET accepted = True WHERE id = $1 RETURNING ...
\* SET accepted = NOT accepted.
accept_permission_set_toggles(p) == [p EXCEPT !.accepted = ~p.accepted]

\* SET accepted = True
accept_permission_set(p) == [p EXCEPT !.accepted = TRUE]

accept_permission(permission_id) ==
    /\ Call
    /\ permission_id \notin Locked
    /\ permissions' = {IF p.id = permission_id THEN accept_permission_set(p)
                       ELSE p : p \in permissions}
    /\ ret' = [op |-> "accept_permission", a |-> 0, b |-> 0, val |-> IF \E p \in permissions : p.id = permission_id
                       THEN "some" ELSE "none"]
    /\ UNCHANGED <<users, workspaces, users_seq, workspaces_seq,
                   permissions_seq, trx, invite>>

\* -------------------------------------------------------- delete_permission
\* DELETE FROM permissions WHERE id = $1
delete_permission_match(permission_id) ==
    {p \in permissions : p.id = permission_id}

delete_permission(permission_id) ==
    /\ Call
    /\ permission_id \notin Locked
    /\ permissions' = permissions \ delete_permission_match(permission_id)
    /\ ret' = [op |-> "delete_permission", a |-> 0, b |-> 0, val |-> IF delete_permission_match(permission_id) # {}
                       THEN "true" ELSE "false"]
    /\ UNCHANGED <<users, workspaces, users_seq, workspaces_seq,
                   permissions_seq, trx, invite>>

\* ----------------------------------------------- delete_permission_by_query
\* The DELETE without `AND type != Owner`.
delete_permission_by_query_any_type(user_id, workspace_id) ==
    {p \in permissions : p.user_id = user_id /\ p.workspace_id = workspace_id}

\* DELETE FROM permissions WHERE user_id = $1 AND workspace_id = $2 AND type != Owner
delete_permission_by_query_match(user_id, workspace_id) ==
    {p \in permissions : /\ p.user_id = user_id
                         /\ p.workspace_id = workspace_id
                         /\ p.type # "Owner"}

delete_permission_by_query(user_id, workspace_id) ==
    /\ Call
    /\ permissions' = permissions \ delete_permission_by_query_match(user_id, workspace_id)
    /\ ret' = [op |-> "delete_permission_by_query", a |-> user_id,
               b |-> workspace_id, val |-> IF delete_permission_by_query_match(user_id, workspace_id) # {}
                       THEN "true" ELSE "false"]
    /\ UNCHANGED <<users, workspaces, users_seq, workspaces_seq,
                   permissions_seq, trx, invite>>

\* -------------------------------------------------------------- rotation
\* The nonce of a user is incremented (the statement is issued outside
\* database/mod.rs; only the column and its readers are here).
rotate_nonce(user_id) ==
    /\ Call
    /\ \E u \in users : u.id = user_id
    /\ users' = {IF u.id = user_id THEN [u EXCEPT !.token_nonce = @ + 1] ELSE u
                   : u \in users}
    /\ ret' = NoRet
    /\ UNCHANGED <<workspaces, permissions, users_seq, workspaces_seq,
                   permissions_seq, trx, invite>>

\* ------------------------------------------------------------------ Next
\* The sequences and the number of calls stay within the bounds.
Bounded(max_workspaces, max_permissions, max_calls) ==
    /\ workspaces_seq <= max_workspaces
    /\ permissions_seq <= max_permissions
    /\ calls <= max_calls

InBounds == Bounded(MaxWorkspaces, MaxPermissions, MaxCalls)

\* Every caller of create_user calls once: the ids the users sequence can give.
UserIds == 1..Cardinality(Procs)
WorkspaceIds == 1..MaxWorkspaces
PermissionIds == 1..MaxPermissions

Next ==
    \/ \E t \in Procs, e \in Emails : create_user_begin(t, e) /\ InBounds'
    \/ \E t \in Procs : create_user_insert(t) /\ InBounds'
    \/ \E t \in Procs : create_user_workspace(t) /\ InBounds'
    \/ \E t \in Procs : create_user_update_cred(t) /\ InBounds'
    \/ \E t \in Procs : create_user_commit(t) /\ InBounds'
    \/ \E t \in Procs : create_user_fail(t) /\ InBounds'
    \/ \E e \in Emails, w \in WorkspaceIds, ty \in InviteTypes :
          create_permission_lookup(e, w, ty) /\ InBounds'
    \/ create_permission_insert /\ InBounds'
    \/ \E u \in UserIds : create_normal_workspace(u) /\ InBounds'
    \/ \E w \in WorkspaceIds, b \in BOOLEAN : update_workspace(w, b) /\ InBounds'
    \/ \E w \in WorkspaceIds : delete_workspace(w) /\ InBounds'
    \/ \E p \in PermissionIds : accept_permission(p) /\ InBounds'
    \/ \E p \in PermissionIds : delete_permission(p) /\ InBounds'
    \/ \E u \in UserIds, w \in WorkspaceIds :
          delete_permission_by_query(u, w) /\ InBounds'

Spec == Init /\ [][Next]_vars

\* Every handler again, with room for a fifth call and a fifth grant: a grant
\* of a second user on a shared workspace, a workspace left with no grant.
InBoundsWide == Bounded(WideWorkspaces, WidePermissions, WideCalls)

WideWorkspaceIds == 1..WideWorkspaces
WidePermissionIds == 1..WidePermissions

NextWide ==
    \/ \E t \in Procs, e \in Emails : create_user_begin(t, e) /\ InBoundsWide'
    \/ \E t \in Procs : create_user_insert(t) /\ InBoundsWide'
    \/ \E t \in Procs : create_user_workspace(t) /\ InBoundsWide'
    \/ \E t \in Procs : create_user_update_cred(t) /\ InBoundsWide'
    \/ \E t \in Procs : create_user_commit(t) /\ InBoundsWide'
    \/ \E t \in Procs : create_user_fail(t) /\ InBoundsWide'
    \/ \E e \in Emails, w \in WideWorkspaceIds, ty \in InviteTypes :
          create_permission_lookup(e, w, ty) /\ InBoundsWide'
    \/ create_permission_insert /\ InBoundsWide'
    \/ \E u \in UserIds : create_normal_workspace(u) /\ InBoundsWide'
    \/ \E w \in WideWorkspaceIds, b \in BOOLEAN : update_workspace(w, b) /\ InBoundsWide'
    \/ \E w \in WideWorkspaceIds : delete_workspace(w) /\ InBoundsWide'
    \/ \E p \in WidePermissionIds : accept_permission(p) /\ InBoundsWide'
    \/ \E p \in WidePermissionIds : delete_permission(p) /\ InBoundsWide'
    \/ \E u \in UserIds, w \in WideWorkspaceIds :
          delete_permission_by_query(u, w) /\ InBoundsWide'

SpecWide == Init /\ [][NextWide]_vars

\* The handlers that insert, rewrite, accept and delete grants, under the
\* larger bounds: room for two invites of one email on two workspaces.
InBoundsReconcile ==
    Bounded(ReconcileWorkspaces, ReconcilePermissions, ReconcileCalls)

ReconcileWorkspaceIds == 1..ReconcileWorkspaces
ReconcilePermissionIds == 1..ReconcilePermissions

NextReconcile ==
    \/ \E t \in Procs, e \in Emails : create_user_begin(t, e) /\ InBoundsReconcile'
    \/ \E t \in Procs : create_user_insert(t) /\ InBoundsReconcile'
    \/ \E t \in Procs : create_user_workspace(t) /\ InBoundsReconcile'
    \/ \E t \in Procs : create_user_update_cred(t) /\ InBoundsReconcile'
    \/ \E t \in Procs : create_user_commit(t) /\ InBoundsReconcile'
    \/ \E t \in Procs : create_user_fail(t) /\ InBoundsReconcile'
    \/ \E e \in Emails, w \in ReconcileWorkspaceIds, ty \in InviteTypes :
          create_permission_lookup(e, w, ty) /\ InBoundsReconcile'
    \/ create_permission_insert /\ InBoundsReconcile'
    \/ \E u \in UserIds : create_normal_workspace(u) /\ InBoundsReconcile'
    \/ \E p \in ReconcilePermissionIds : accept_permission(p) /\ InBoundsReconcile'
    \/ \E p \in ReconcilePermissionIds : delete_permission(p) /\ InBoundsReconcile'

SpecReconcile == Init /\ [][NextReconcile]_vars

\* Registration and nonce rotation alone.
InBoundsToken == \A u \in users : u.token_nonce <= MaxNonce

Nonces == 0..MaxNonce + 1

NextToken ==
    \/ \E t \in Procs, e \in Emails : create_user_begin(t, e) /\ InBoundsToken'
    \/ \E t \in Procs : create_user_insert(t) /\ InBoundsToken'
    \/ \E t \in Procs : create_user_workspace(t) /\ InBoundsToken'
    \/ \E t \in Procs : create_user_update_cred(t) /\ InBoundsToken'
    \/ \E t \in Procs : create_user_commit(t) /\ InBoundsToken'
    \/ \E t \in Procs : create_user_fail(t) /\ InBoundsToken'
    \/ \E u \in UserIds : rotate_nonce(u) /\ InBoundsToken'

SpecToken == Init /\ [][NextToken]_vars

\* ================================================================ claims
GrantsOn(perms, workspace_id) == {p \in perms : p.workspace_id = workspace_id}

Committing(t) == trx[t].pc = "reconciled" /\ trx'[t].res = "user"

\* The rows an open or rolled-back create_user call has written are in no table.
NoTrace(t) ==
    (trx[t].res # "user" /\ trx[t].user_id # NoId) =>
        /\ \A u \in users : u.id # trx[t].user_id
        /\ \A w \in workspaces : w.id # trx[t].workspace_id
        /\ \A p \in permissions :
              /\ p.id # trx[t].permission_id
              /\ p.user_id # trx[t].user_id
              /\ p.workspace_id # trx[t].workspace_id \/ trx[t].workspace_id = NoId

\* C1: create_user is all-or-nothing.  Every step of a call other than its
\* COMMIT (the steps inside the transaction, the empty return on an existing
\* email, a failure at any statement) leaves users, workspaces and
\* permissions exactly as they were, and nothing the open transaction wrote
\* is in any table; the COMMIT step adds the user, its Private workspace, its
\* Owner grant and the rewritten invites in one step.
C1_AllOrNothing ==
    [][\A t \in Procs :
          trx'[t] # trx[t] =>
             /\ NoTrace(t)'
             /\ IF Committing(t)
                THEN /\ \E u \in users' \ users :
                           u.id = trx[t].user_id /\ u.email = trx[t].email
                     /\ \E w \in workspaces' \ workspaces :
                           w.id = trx[t].workspace_id /\ w.type = "Private"
                     /\ \E p \in permissions' \ permissions :
                           /\ p.workspace_id = trx[t].workspace_id
                           /\ p.user_id = trx[t].user_id
                           /\ p.type = "Owner"
                     /\ \A p \in permissions :
                           p.id \in trx[t].cred =>
                              \E q \in permissions' \ permissions :
                                 q.id = p.id /\ q.user_id = trx[t].user_id
                ELSE /\ users' = users
                     /\ workspaces' = workspaces
                     /\ permissions' = permissions]_vars

\* A call failed after its workspace, its grant and the invite rewrite were
\* done inside the transaction, and the invite is still keyed by the email.
C1_Witness ==
    \E t \in Procs :
        /\ trx[t].res = "error"
        /\ trx[t].fault = "reconciled"
        /\ \E p \in permissions : p.user_email = trx[t].email
        /\ \A u \in users : u.email # trx[t].email

\* C2: no grant is keyed by the bare email of a registered user.
C2_NoEmailGrantForRegistered ==
    \A p \in permissions :
        p.user_email # NoEmail => \A u \in users : u.email # p.user_email

\* C3: every workspace has exactly one Owner grant.
C3_ExactlyOneOwner ==
    \A w \in workspaces :
        Cardinality({p \in GrantsOn(permissions, w.id) : p.type = "Owner"}) = 1

\* The person behind a grant: the user id, also for the email of a user.
Identity(p) ==
    IF p.user_id # NoUser THEN <<"user", p.user_id>>
    ELSE IF get_user_by_email(p.user_email) # NoUser
         THEN <<"user", get_user_by_email(p.user_email)>>
         ELSE <<"email", p.user_email>>

\* C4: a workspace holds at most one grant per identity, a user's id and
\* that user's email being the same identity.
C4_OneGrantPerIdentity ==
    \A p, q \in permissions :
        (p.workspace_id = q.workspace_id /\ Identity(p) = Identity(q)) => p = q

\* C5: the COMMIT of create_user adds exactly one workspace; it is Private,
\* not public, and its only grant is an accepted Owner grant of the new user.
C5_PrivateWorkspaceWithOwner ==
    [][\A t \in Procs :
          Committing(t) =>
             /\ \E u \in users' : u.id = trx[t].user_id
             /\ \E w \in workspaces' :
                   /\ workspaces' \ workspaces = {w}
                   /\ w.type = "Private"
                   /\ w.public = FALSE
                   /\ \E g \in permissions' :
                         /\ GrantsOn(permissions', w.id) = {g}
                         /\ g.type = "Owner"
                         /\ g.accepted = TRUE
                         /\ g.user_id = trx[t].user_id
                         /\ g.user_email = NoEmail]_vars

\* A call has returned a user, and its Private workspace with its Owner grant
\* is in the tables.
C5_Witness ==
    \E t \in Procs :
        /\ trx[t].res = "user"
        /\ \E w \in workspaces : w.id = trx[t].workspace_id /\ w.type = "Private"
        /\ \E p \in permissions :
              p.id = trx[t].permission_id /\ p.user_id = trx[t].user_id

\* C6: every email-keyed grant for the new user's email that is there when
\* the reconciliation runs is taken by it, stays as it is until COMMIT, and
\* at COMMIT keeps its id, workspace, role and acceptance flag while its email
\* is cleared and its user id set; no other grant is changed by the COMMIT.
C6_Reconcile ==
    [][\A t \in Procs :
          /\ (trx[t].pc = "ws_provisioned" /\ trx'[t].pc = "reconciled") =>
                \A p \in permissions :
                    p.user_email = trx[t].email => p.id \in trx'[t].cred
          /\ (trx[t].pc = "reconciled" /\ trx'[t].pc = "reconciled") =>
                \A p \in permissions : p.id \in trx[t].cred => p \in permissions'
          /\ Committing(t) =>
                /\ \A id \in trx[t].cred :
                      \E p \in permissions :
                          /\ p.id = id
                          /\ p.user_email = trx[t].email
                          /\ p.user_id = NoUser
                /\ \A p \in permissions :
                      IF p.id \in trx[t].cred
                      THEN \E q \in permissions' :
                              /\ q.id = p.id
                              /\ q.workspace_id = p.workspace_id
                              /\ q.type = p.type
                              /\ q.accepted = p.accepted
                              /\ q.user_email = NoEmail
                              /\ q.user_id = trx[t].user_id
                              /\ \A r \in permissions' : r.id = p.id => r = q
                      ELSE p \in permissions']_vars

\* A registration has taken over two grants on two workspaces.
C6_Witness ==
    \E t \in Procs :
        /\ trx[t].res = "user"
        /\ \E p, q \in permissions :
              /\ p.id \in trx[t].cred /\ q.id \in trx[t].cred
              /\ p.workspace_id # q.workspace_id
              /\ p.user_id = trx[t].user_id /\ q.user_id = trx[t].user_id
              /\ p.user_email = NoEmail /\ q.user_email = NoEmail

\* C7: every registered user holds the Owner grant of exactly one Private
\* workspace.
C7_OnePrivateWorkspacePerUser ==
    \A u \in users :
        Cardinality({w \in workspaces :
                        /\ w.type = "Private"
                        /\ \E p \in GrantsOn(permissions, w.id) :
                              p.user_id = u.id /\ p.type = "Owner"}) = 1

\* Two calls for one email that both began while the email was free and that
\* no storage failure ended.
Raced(s, t) ==
    /\ s # t
    /\ trx[s].pc = "done" /\ trx[t].pc = "done"
    /\ trx[s].email = trx[t].email
    /\ trx[s].fresh /\ trx[t].fresh
    /\ trx[s].fault = "none" /\ trx[t].fault = "none"

C9_OwnerSurvivesRevoke ==
    [][ret'.op = "delete_permission_by_query" =>
          LET mine == {p \in permissions : /\ p.user_id = ret'.a
                                           /\ p.workspace_id = ret'.b}
          IN /\ \A p \in permissions : p.type = "Owner" => p \in permissions'
             /\ permissions' \subseteq permissions
             /\ IF \E p \in mine : p.type # "Owner"
                THEN /\ ret'.val = "true"
                     /\ permissions \ permissions' = {p \in mine : p.type # "Owner"}
                ELSE /\ ret'.val = "false"
                     /\ permissions' = permissions]_vars

\* The call was made for a user holding the Owner grant of the workspace and
\* returned false.
C9_Witness ==
    /\ ret.op = "delete_permission_by_query"
    /\ ret.val = "false"
    /\ \E p \in permissions :
          p.user_id = ret.a /\ p.workspace_id = ret.b /\ p.type = "Owner"

\* C10: can_read_workspace is true for every user id on every public workspace.
C10_PublicReadable ==
    \A w \in workspaces :
        w.public => \A u \in UserIds \cup {Cardinality(Procs) + 1} : can_read_workspace(u, w.id)

\* C11: on a workspace that is not public, can_read_workspace(u, w) is true
\* exactly when permissions holds a row keyed by user id u on w, whatever its
\* type and its accepted flag; a row of u on another workspace does not count.
C11_PrivateReadNeedsGrant ==
    \A w \in workspaces :
        ~w.public =>
            \A u \in UserIds \cup {Cardinality(Procs) + 1} :
                can_read_workspace(u, w.id) <=>
                    \E p \in permissions : p.user_id = u /\ p.workspace_id = w.id

\* A user reads one non-public workspace through a grant not yet accepted and
\* cannot read another non-public workspace.
C11_Witness ==
    \E w, v \in workspaces, p \in permissions :
        /\ ~w.public /\ ~v.public
        /\ p.workspace_id = w.id /\ p.user_id # NoUser /\ ~p.accepted
        /\ can_read_workspace(p.user_id, w.id)
        /\ ~can_read_workspace(p.user_id, v.id)
        /\ \E q \in permissions : q.user_id = p.user_id /\ q.workspace_id # v.id

\* C12: create_permission for an email whose identity (the email itself, or
\* the user registered with it) already holds a grant on the workspace
\* returns None and leaves permissions as it was.
C12_InviteConflictIsNoOp ==
    [][ret'.op = "create_permission" =>
          LET id == get_user_by_email(invite.email)
              held == {p \in GrantsOn(permissions, invite.workspace_id) :
                          \/ p.user_email = invite.email
                          \/ (id # NoUser /\ p.user_id = id)}
          IN held # {} => /\ ret'.val = "none"
                          /\ permissions' = permissions]_vars

\* C13: create_permission inserts a grant only on an existing Normal
\* workspace: for a Private or a missing workspace it returns None and
\* permissions is unchanged, and the row it inserts is on the workspace it was
\* called for.  So the only grant a Private workspace ever has is the Owner
\* grant made with it.
C13_InviteOnlyNormal ==
    [][/\ ret'.op = "create_permission" =>
             /\ (~\E w \in workspaces : /\ w.id = invite.workspace_id
                                        /\ w.type = "Normal") =>
                    /\ ret'.val = "none"
                    /\ permissions' = permissions
             /\ ret'.val = "some" =>
                    /\ \E w \in workspaces : /\ w.id = invite.workspace_id
                                             /\ w.type = "Normal"
                    /\ \E p \in permissions' :
                          /\ permissions' = permissions \cup {p}
                          /\ p \notin permissions
                          /\ p.workspace_id = invite.workspace_id
       /\ \A w \in workspaces' :
             w.type = "Private" =>
                /\ Cardinality(GrantsOn(permissions', w.id)) <= 1
                /\ \A p \in GrantsOn(permissions', w.id) :
                      p.type = "Owner" /\ p.user_id # NoUser]_vars

\* create_permission has returned None while no Normal workspace exists: it
\* was called for a Private or a missing workspace, and the Private workspace
\* still has its Owner grant alone.
C13_Witness ==
    /\ ret.op = "create_permission"
    /\ ret.val = "none"
    /\ \A w \in workspaces : w.type = "Private"
    /\ \E w \in workspaces : Cardinality(GrantsOn(permissions, w.id)) = 1

\* C14: update_workspace(id, public) sets the public flag of the Normal
\* workspace with that id, and of nothing else, and returns it with that flag;
\* for a Private or a missing id it returns None and no workspace changes; no
\* grant and no user changes either way.  A Private workspace is never public.
C14_UpdateOnlyNormal ==
    [][/\ ret'.op = "update_workspace" =>
          \A id \in WorkspaceIds, public \in BOOLEAN :
             update_workspace(id, public) =>
                /\ permissions' = permissions
                /\ users' = users
                /\ IF \E w \in workspaces : w.id = id /\ w.type = "Normal"
                   THEN /\ ret'.val = IF public THEN "some_public" ELSE "some_private"
                        /\ workspaces' = {IF w.id = id THEN [w EXCEPT !.public = public]
                                          ELSE w : w \in workspaces}
                   ELSE /\ ret'.val = "none"
                        /\ workspaces' = workspaces
       /\ \A w \in workspaces' : w.type = "Private" => ~w.public]_vars

\* update_workspace has returned a Normal workspace made public, next to a
\* Private workspace that is not.
C14_Witness ==
    /\ ret.op = "update_workspace"
    /\ ret.val = "some_public"
    /\ \E w \in workspaces : w.type = "Normal" /\ w.public
    /\ \E w \in workspaces : w.type = "Private" /\ ~w.public

\* C15: delete_workspace(id) removes the Normal workspace with that id and, in
\* the same step, every grant on it, and returns true; for a Private or a
\* missing id (so also for an id deleted before) it returns false and nothing
\* changes.  No grant is ever on a workspace that is not there.
C15_DeleteCascades ==
    [][/\ ret'.op = "delete_workspace" =>
          \A id \in WorkspaceIds :
             delete_workspace(id) =>
                /\ users' = users
                /\ IF \E w \in workspaces : w.id = id /\ w.type = "Normal"
                   THEN /\ ret'.val = "true"
                        /\ workspaces' = {w \in workspaces : w.id # id}
                        /\ permissions' = {p \in permissions : p.workspace_id # id}
                   ELSE /\ ret'.val = "false"
                        /\ workspaces' = workspaces
                        /\ permissions' = permissions
       /\ \A p \in permissions' :
             \E w \in workspaces' : w.id = p.workspace_id]_vars

\* Four calls: a registration, a create_normal_workspace that made workspace 2
\* with grant 2, a create_permission that made grant 3 on it, and the
\* delete_workspace that returned true and took both grants with it.
C15_Witness ==
    /\ ret.op = "delete_workspace"
    /\ ret.val = "true"
    /\ calls = 4
    /\ \A t \in Procs : trx[t].pc \in {"idle", "done"}
    /\ workspaces_seq = 2
    /\ permissions_seq = 3
    /\ Cardinality(workspaces) = 1
    /\ Cardinality(permissions) = 1

\* C16: refresh_token(id, n) returns the user and verify_refresh_token(id, n)
\* returns true exactly when user id exists with stored nonce n, and the two
\* agree; a rotation of the user's nonce makes the nonce stored before invalid
\* and the new one valid; a nonce below the stored one never becomes valid.
C16_NonceValidity ==
    [][/\ \A id \in UserIds \cup {Cardinality(Procs) + 1}, n \in Nonces :
             /\ verify_refresh_token(id, n)' <=>
                   \E u \in users' : u.id = id /\ u.token_nonce = n
             /\ verify_refresh_token(id, n)' <=> refresh_token(id, n)' # {}
             /\ \A u \in refresh_token(id, n)' : u \in users' /\ u.id = id
       /\ \A id \in UserIds :
             rotate_nonce(id) =>
                \A u \in users :
                   u.id = id =>
                      /\ ~verify_refresh_token(id, u.token_nonce)'
                      /\ \E n \in Nonces : /\ n # u.token_nonce
                                            /\ verify_refresh_token(id, n)'
                                            /\ refresh_token(id, n)' # {}
       /\ \A u \in users, n \in Nonces :
             n < u.token_nonce => ~verify_refresh_token(u.id, n)']_vars

\* A user's nonce has been rotated: the old nonce 0 is refused, nonce 1 is
\* accepted, and another user's nonce 0 is still good.
C16_Witness ==
    \E u, v \in users :
        /\ u.token_nonce = 1
        /\ ~verify_refresh_token(u.id, 0)
        /\ refresh_token(u.id, 0) = {}
        /\ verify_refresh_token(u.id, 1)
        /\ refresh_token(u.id, 1) = {u}
        /\ v.id # u.id
        /\ verify_refresh_token(v.id, 0)

\* C17: every row of permissions has exactly one of user_id and user_email
\* set: never both, never neither.
C17_OneIdentityField ==
    \A p \in permissions : (p.user_id # NoUser) # (p.user_email # NoEmail)

\* A create_user call has committed and rewritten an invite from its email to
\* its user id, next to the Owner grant it inserted.
C17_Witness ==
    \E t \in Procs, p, q \in permissions :
        /\ trx[t].res = "user"
        /\ p.id \in trx[t].cred
        /\ p.user_id = trx[t].user_id /\ p.user_email = NoEmail
        /\ q.id = trx[t].permission_id
        /\ q.user_id = trx[t].user_id /\ q.user_email = NoEmail

\* C18: get_workspace_by_id(id) returns None when no workspace has that id; a
\* detail with no owner and member count 0 for a Private workspace; and for a
\* Normal workspace a detail (never an error) whose owner is the user of its
\* Owner grant and whose member count is the number of accepted grants on it.
C18_WorkspaceDetail ==
    \A id \in WorkspaceIds :
        \A r \in get_workspace_by_id(id) :
            IF ~\E w \in workspaces : w.id = id
            THEN r.kind = "none"
            ELSE IF \E w \in workspaces : w.id = id /\ w.type = "Private"
            THEN r.kind = "detail" /\ r.owner = NoUser /\ r.member_count = 0
            ELSE /\ r.kind = "detail"
                 /\ \E p \in GrantsOn(permissions, id) :
                       p.type = "Owner" /\ p.user_id = r.owner
                 /\ r.member_count =
                       Cardinality({p \in GrantsOn(permissions, id) : p.accepted})

\* C19: accept_permission(id) sets accepted on the grant with that id, leaves
\* its other columns and every other row as they were, and returns the row;
\* for an unknown id it returns None and nothing changes; on a grant already
\* accepted it changes nothing.  No step of any handler takes a grant from
\* accepted back to not accepted.
C19_AcceptOnlyThatGrant ==
    [][/\ ret'.op = "accept_permission" =>
          \A id \in PermissionIds :
             accept_permission(id) =>
                /\ users' = users
                /\ workspaces' = workspaces
                /\ IF \E p \in permissions : p.id = id
                   THEN /\ ret'.val = "some"
                        /\ permissions' =
                              {IF p.id = id THEN [p EXCEPT !.accepted = TRUE] ELSE p
                                 : p \in permissions}
                   ELSE /\ ret'.val = "none"
                        /\ permissions' = permissions
                /\ (\E p \in permissions : p.id = id /\ p.accepted) =>
                      permissions' = permissions
       /\ \A p \in permissions, q \in permissions' :
             (q.id = p.id /\ p.accepted) => q.accepted]_vars

\* accept_permission has returned a row, and an invite still keyed by email is
\* accepted: only accept_permission can have done that.
C19_Witness ==
    /\ ret.op = "accept_permission"
    /\ ret.val = "some"
    /\ \E p \in permissions : p.accepted /\ p.user_email # NoEmail

\* C20: what get_user_in_workspace_by_email(w, e) returns is Registered with
\* the user whose email is e exactly when there is such a user, UnRegistered
\* otherwise, and in_workspace tells whether w has a grant keyed by that user
\* id (or, for an unregistered e, by that email).
C20_ClassifiesByEmail ==
    \A w \in WorkspaceIds, e \in Emails :
        \A r \in get_user_in_workspace_by_email(w, e) :
            r.kind # "err" =>
                IF get_user_by_email(e) # NoUser
                THEN /\ r.kind = "registered"
                     /\ r.user = get_user_by_email(e)
                     /\ r.in_workspace <=>
                           \E p \in GrantsOn(permissions, w) : p.user_id = r.user
                ELSE /\ r.kind = "unregistered"
                     /\ r.in_workspace <=>
                           \E p \in GrantsOn(permissions, w) : p.user_email = e
====
